---- MODULE Spec2Model ----
(***************************************************************************)
(* Model of config-checker: scripts/check_config.js (two revisions of      *)
(* every environment) and scripts/compare_envs.js (pt against prod at one  *)
(* revision).                                                              *)
(*                                                                         *)
(* A JavaScript string is a sequence of one-character strings, so that the *)
(* regular-expression replacements of normalizeValue act on characters.    *)
(* `undefined' is the one-element sequence Undefined, which is no string   *)
(* because its element is not a single character.  A parsed .properties    *)
(* object is a sequence of [key, val] entries with distinct keys, in the   *)
(* insertion order Object.keys reports; `null' is carried by the isNull    *)
(* field of a content record.                                              *)
(***************************************************************************)
EXTENDS Integers, Sequences, FiniteSets, TLC

VARIABLES
  nValue, nIsPt, nResult, nCalled,          \* normalizeValue applied to one input
  dLeft, dRight, dFilter, dOut, dCalled,    \* computeDiffs applied to one input
  mode,        \* which script runs: "temporal" (check_config.js) or "cross" (compare_envs.js)
  argv,        \* the positional arguments
  tree,        \* the files of the repository at the listed revision
  pc,          \* the position of main
  result,      \* main's result object
  envQueue,    \* the environments still to visit
  curEnv,      \* the environment of the running loop
  files,       \* the .properties files of curEnv still to visit
  oldContent,  \* check_config.js: the old content of the file being visited
  stdout,      \* the values printed with console.log, in order
  exit,        \* "running", or the way the process ended: "exit0", "exit1"
  nLsTree,     \* git ls-tree calls issued
  nShow,       \* git show calls issued
  processed,   \* history: every file visited, with its two sides and its diff
  discovered,  \* history: the environments found under the configuration root
  lastShow,    \* history: how the latest git show ended
  lastLs       \* history: where the latest git ls-tree ran and how it ended

normVars == <<nValue, nIsPt, nResult, nCalled>>
diffVars == <<dLeft, dRight, dFilter, dOut, dCalled>>
mainVars == <<mode, argv, tree, pc, result, envQueue, curEnv, files, oldContent,
              stdout, exit, nLsTree, nShow, processed, discovered, lastShow, lastLs>>
vars == <<normVars, diffVars, mainVars>>

IdleNorm == nValue = <<>> /\ nIsPt = FALSE /\ nResult = <<>> /\ nCalled = FALSE
IdleDiff == dLeft = 0 /\ dRight = 0 /\ dFilter = FALSE /\ dOut = <<>> /\ dCalled = "none"
IdleMain ==
  /\ mode = "none" /\ argv = <<>> /\ tree = {} /\ pc = "idle" /\ result = <<>>
  /\ envQueue = <<>> /\ curEnv = "" /\ files = <<>> /\ oldContent = 0
  /\ stdout = <<>> /\ exit = "running" /\ nLsTree = 0 /\ nShow = 0
  /\ processed = {} /\ discovered = {} /\ lastShow = "none" /\ lastLs = "none"

(***************************************************************************)
(* Strings                                                                 *)
(***************************************************************************)
Undefined == <<"undefined">>
EmptyStr == <<>>

S_pt == <<"p", "t", "-">>
S_contents_pt == <<"c", "o", "n", "t", "e", "n", "t", "s", "-", "p", "t">>
S_prod == <<"p", "r", "o", "d", "-">>
S_prd == <<"p", "r", "d", "-">>
S_contents == <<"c", "o", "n", "t", "e", "n", "t", "s">>
S_svc == <<"s", "v", "c">>

\* pattern occurs in s starting at index i
MatchesAt(s, pat, i) ==
  /\ i + Len(pat) - 1 <= Len(s)
  /\ \A j \in 1..Len(pat) : s[i + j - 1] = pat[j]

\* String.prototype.replace(/pat/g, ''): one scan from the left, every match
\* found is dropped and the scan resumes after it.
RECURSIVE ReplaceFrom(_, _, _)
ReplaceFrom(s, pat, i) ==
  IF i > Len(s) THEN <<>>
  ELSE IF MatchesAt(s, pat, i) THEN ReplaceFrom(s, pat, i + Len(pat))
  ELSE <<s[i]>> \o ReplaceFrom(s, pat, i + 1)

ReplaceAll(s, pat) == ReplaceFrom(s, pat, 1)

\* variant of Patterns: the rules in reverse array order
PatternsSwapped(isPt) ==
  IF isPt THEN <<S_contents_pt, S_pt>> ELSE <<S_contents, S_prd, S_prod>>

\* the pattern list of normalizeValue, in array order
Patterns(isPt) ==
  IF isPt THEN <<S_pt, S_contents_pt>> ELSE <<S_prod, S_prd, S_contents>>

\* patterns.forEach(pattern => normalized = normalized.replace(pattern, ''))
RECURSIVE ApplyPatterns(_, _)
ApplyPatterns(s, pats) ==
  IF pats = <<>> THEN s
  ELSE ApplyPatterns(ReplaceAll(s, Head(pats)), Tail(pats))

normalizeValue(value, isPt) ==
  IF value = Undefined \/ value = EmptyStr THEN EmptyStr
  ELSE ApplyPatterns(value, Patterns(isPt))

(***************************************************************************)
(* Parsed property objects and the two computeDiffs                        *)
(***************************************************************************)
\* a content as getFileContent returns it: null, or the parsed object
Null == [isNull |-> TRUE, props |-> <<>>]
Obj(props) == [isNull |-> FALSE, props |-> props]

\* Object.keys(obj || {})
ObjectKeys(obj) ==
  IF obj.isNull THEN <<>> ELSE [i \in 1..Len(obj.props) |-> obj.props[i].key]

\* obj ? obj[key] : undefined
Lookup(obj, key) ==
  IF obj.isNull THEN Undefined
  ELSE IF \E i \in 1..Len(obj.props) : obj.props[i].key = key
  THEN obj.props[CHOOSE i \in 1..Len(obj.props) : obj.props[i].key = key].val
  ELSE Undefined

\* new Set([...a, ...b]) in iteration order: first occurrences, in order
RECURSIVE SetOrder(_, _)
SetOrder(seq, seen) ==
  IF seq = <<>> THEN <<>>
  ELSE IF Head(seq) \in seen THEN SetOrder(Tail(seq), seen)
  ELSE <<Head(seq)>> \o SetOrder(Tail(seq), seen \cup { Head(seq) })

AllKeys(leftObj, rightObj) ==
  SetOrder(ObjectKeys(leftObj) \o ObjectKeys(rightObj), {})

\* variant of CheckConfig_type: the two undefined tests exchanged
CheckConfig_typeSwapped(oldVal, newVal) ==
  IF newVal = Undefined THEN "added"
  ELSE IF oldVal = Undefined THEN "removed" ELSE "changed"

\* check_config.js: oldVal === undefined ? 'added' : newVal === undefined ? 'removed' : 'changed'
CheckConfig_type(oldVal, newVal) ==
  IF oldVal = Undefined THEN "added"
  ELSE IF newVal = Undefined THEN "removed" ELSE "changed"

\* variant of CheckConfig_forKey: without the oldVal !== newVal test
CheckConfig_forKeyNoCompare(oldObj, newObj, key) ==
  LET oldVal == Lookup(oldObj, key)
      newVal == Lookup(newObj, key)
  IN <<[key |-> key, old |-> oldVal, new |-> newVal,
        type |-> CheckConfig_type(oldVal, newVal)]>>

\* check_config.js computeDiffs: the body of allKeys.forEach for one key
CheckConfig_forKey(oldObj, newObj, key) ==
  LET oldVal == Lookup(oldObj, key)
      newVal == Lookup(newObj, key)
  IN IF oldVal # newVal
     THEN <<[key |-> key, old |-> oldVal, new |-> newVal,
             type |-> CheckConfig_type(oldVal, newVal)]>>
     ELSE <<>>

RECURSIVE CheckConfig_forEach(_, _, _)
CheckConfig_forEach(keys, oldObj, newObj) ==
  IF keys = <<>> THEN <<>>
  ELSE CheckConfig_forKey(oldObj, newObj, Head(keys))
         \o CheckConfig_forEach(Tail(keys), oldObj, newObj)

CheckConfig_computeDiffs(oldObj, newObj) ==
  CheckConfig_forEach(AllKeys(oldObj, newObj), oldObj, newObj)

\* compare_envs.js: ptVal === undefined ? 'added_in_prod' : prodVal === undefined ? 'added_in_pt' : 'changed'
CompareEnvs_type(ptVal, prodVal) ==
  IF ptVal = Undefined THEN "added_in_prod"
  ELSE IF prodVal = Undefined THEN "added_in_pt" ELSE "changed"

\* variant of CompareEnvs_shouldIgnore: without the two truthiness tests
CompareEnvs_shouldIgnoreAllowEmpty(ptVal, prodVal, applyFilter) ==
  /\ applyFilter
  /\ normalizeValue(ptVal, TRUE) = normalizeValue(prodVal, FALSE)

\* compare_envs.js: normalizedPtVal && normalizedProdVal && normalizedPtVal === normalizedProdVal
CompareEnvs_shouldIgnore(ptVal, prodVal, applyFilter) ==
  /\ applyFilter
  /\ LET normalizedPtVal == normalizeValue(ptVal, TRUE)
         normalizedProdVal == normalizeValue(prodVal, FALSE)
     IN /\ normalizedPtVal # EmptyStr
        /\ normalizedProdVal # EmptyStr
        /\ normalizedPtVal = normalizedProdVal

\* compare_envs.js computeDiffs: the body of allKeys.forEach for one key
CompareEnvs_forKey(ptObj, prodObj, applyFilter, key) ==
  LET ptVal == Lookup(ptObj, key)
      prodVal == Lookup(prodObj, key)
  IN IF ptVal # prodVal /\ ~CompareEnvs_shouldIgnore(ptVal, prodVal, applyFilter)
     THEN <<[key |-> key, pt |-> ptVal, prod |-> prodVal,
             type |-> CompareEnvs_type(ptVal, prodVal)]>>
     ELSE <<>>

RECURSIVE CompareEnvs_forEach(_, _, _, _)
CompareEnvs_forEach(keys, ptObj, prodObj, applyFilter) ==
  IF keys = <<>> THEN <<>>
  ELSE CompareEnvs_forKey(ptObj, prodObj, applyFilter, Head(keys))
         \o CompareEnvs_forEach(Tail(keys), ptObj, prodObj, applyFilter)

CompareEnvs_computeDiffs(ptObj, prodObj, applyFilter) ==
  CompareEnvs_forEach(AllKeys(ptObj, prodObj), ptObj, prodObj, applyFilter)

(***************************************************************************)
(* normalizeValue on bounded inputs                                        *)
(***************************************************************************)
MaxChunks == 3

Chunks ==
  { S_pt, S_prod, S_prd, S_contents, <<"-", "p", "t">>, <<"p">>, <<"t", "-">>, S_svc }

RECURSIVE ChunkStrings(_)
ChunkStrings(n) ==
  IF n = 0 THEN { EmptyStr }
  ELSE LET shorter == ChunkStrings(n - 1)
       IN shorter \cup { s \o c : s \in shorter, c \in Chunks }

NormInputs == ChunkStrings(MaxChunks) \cup { Undefined }

InitNorm ==
  /\ nValue \in NormInputs
  /\ nIsPt \in BOOLEAN
  /\ nResult = EmptyStr
  /\ nCalled = FALSE
  /\ IdleDiff /\ IdleMain

CallNormalizeValue ==
  /\ ~nCalled
  /\ nResult' = normalizeValue(nValue, nIsPt)
  /\ nCalled' = TRUE
  /\ UNCHANGED <<nValue, nIsPt, diffVars, mainVars>>

NextNorm == CallNormalizeValue

SpecNorm == InitNorm /\ [][NextNorm]_vars

\* Deleting the occurrences of pat, stated on positions: a match is taken when
\* no taken match to its left still covers its first character, and the
\* characters of s that no taken match covers remain, in their order.
C10_Deleted(s, pat) ==
  LET n == Len(s)
      m == Len(pat)
      taken[i \in 1..n] ==
        /\ MatchesAt(s, pat, i)
        /\ \A j \in 1..(i - 1) : (j + m > i) => ~taken[j]
      kept == { i \in 1..n : \A j \in 1..i : (j + m > i) => ~taken[j] }
  IN [k \in 1..Cardinality(kept) |->
        s[CHOOSE i \in kept : Cardinality({ j \in kept : j <= i }) = k]]

C10_Expected(value, isPt) ==
  IF value = Undefined \/ value = EmptyStr THEN EmptyStr
  ELSE IF isPt THEN C10_Deleted(C10_Deleted(value, S_pt), S_contents_pt)
  ELSE C10_Deleted(C10_Deleted(C10_Deleted(value, S_prod), S_prd), S_contents)

\* C10: normalizeValue returns the empty string for an absent or empty value,
\* and otherwise the value with the role's substrings deleted rule by rule in
\* the fixed order (pt: 'pt-', 'contents-pt'; prod: 'prod-', 'prd-',
\* 'contents'), each rule over the whole current string before the next; the
\* result is always a string, and 'pt-svc' (pt) and 'prod-svc' (prod) both
\* give 'svc'.
C10_NormalizeValue ==
  nCalled =>
    /\ nResult = C10_Expected(nValue, nIsPt)
    /\ nResult # Undefined
    /\ (nValue \in { Undefined, EmptyStr } => nResult = EmptyStr)
    /\ (nValue = S_pt \o S_svc /\ nIsPt => nResult = S_svc)
    /\ (nValue = S_prod \o S_svc /\ ~nIsPt => nResult = S_svc)

\* 'contentspt--pt' as pt: deleting 'pt-' first makes 'contents-pt', which the
\* second rule then deletes whole.
C10_Witness ==
  /\ nCalled
  /\ nIsPt
  /\ nValue = S_contents \o S_pt \o <<"-", "p", "t">>
  /\ nResult = EmptyStr

(***************************************************************************)
(* The two computeDiffs on bounded inputs                                  *)
(***************************************************************************)
MaxKeys == 2

KeyNames == <<"host", "port", "url", "name">>
DiffKeys == { KeyNames[i] : i \in 1..MaxKeys }

\* values of the left (old, pt) and of the right (new, prod) object
LeftValues == { EmptyStr, S_pt \o S_svc, S_pt }
RightValues == { S_prod, S_prod \o S_svc, S_pt }

\* every object over the keys: entries in any insertion order, keys distinct
RECURSIVE PropsOfLen(_, _, _)
PropsOfLen(n, keys, values) ==
  IF n = 0 THEN { <<>> }
  ELSE { Append(p, [key |-> k, val |-> v]) :
           p \in PropsOfLen(n - 1, keys, values),
           k \in keys, v \in values }

DistinctKeys(props) ==
  \A i, j \in 1..Len(props) : props[i].key = props[j].key => i = j

Contents(keys, values) ==
  { Null } \cup
  { Obj(p) : p \in { q \in UNION { PropsOfLen(n, keys, values) : n \in 0..Cardinality(keys) } :
                       DistinctKeys(q) } }

InitDiff ==
  /\ dLeft \in Contents(DiffKeys, LeftValues)
  /\ dRight \in Contents(DiffKeys, RightValues)
  /\ dFilter = FALSE
  /\ dOut = <<>>
  /\ dCalled = "none"
  /\ IdleNorm /\ IdleMain

\* check_config.js: computeDiffs(oldContent, newContent)
CallCheckConfigComputeDiffs ==
  /\ dCalled = "none"
  /\ dOut' = CheckConfig_computeDiffs(dLeft, dRight)
  /\ dCalled' = "check_config"
  /\ UNCHANGED <<dLeft, dRight, dFilter, normVars, mainVars>>

\* compare_envs.js: computeDiffs(ptContent, prodContent, applyFilter)
CallCompareEnvsComputeDiffs ==
  /\ dCalled = "none"
  /\ \E applyFilter \in BOOLEAN :
       /\ dFilter' = applyFilter
       /\ dOut' = CompareEnvs_computeDiffs(dLeft, dRight, applyFilter)
  /\ dCalled' = "compare_envs"
  /\ UNCHANGED <<dLeft, dRight, normVars, mainVars>>

NextDiff ==
  \/ CallCheckConfigComputeDiffs
  \/ CallCompareEnvsComputeDiffs

SpecDiff == InitDiff /\ [][NextDiff]_vars

\* the two input maps read as relations, an absent map having no key
D_Has(obj, k) == ~obj.isNull /\ \E i \in 1..Len(obj.props) : obj.props[i].key = k
D_Val(obj, k) == (CHOOSE e \in { obj.props[i] : i \in 1..Len(obj.props) } : e.key = k).val
D_Disagree(k) ==
  \/ D_Has(dLeft, k) /\ ~D_Has(dRight, k)
  \/ ~D_Has(dLeft, k) /\ D_Has(dRight, k)
  \/ D_Has(dLeft, k) /\ D_Has(dRight, k) /\ D_Val(dLeft, k) # D_Val(dRight, k)
D_Count(k) == Cardinality({ i \in 1..Len(dOut) : dOut[i].key = k })
D_Unsuppressed ==
  \/ dCalled = "check_config"
  \/ dCalled = "compare_envs" /\ ~dFilter

\* C1: without suppression the diff holds exactly one record for every key of
\* the union on which the two sides disagree (different values, or present on
\* one side only) and none for any other key; the diff of (A, A) is empty.
C1_DiffKeysAreDisagreements ==
  D_Unsuppressed =>
    /\ \A i \in 1..Len(dOut) : D_Has(dLeft, dOut[i].key) \/ D_Has(dRight, dOut[i].key)
    /\ \A k \in DiffKeys : D_Count(k) = (IF D_Disagree(k) THEN 1 ELSE 0)
    /\ (dLeft = dRight => dOut = <<>>)

\* one key agrees, another disagrees: exactly one record comes out
C1_Witness ==
  /\ D_Unsuppressed
  /\ Len(dOut) = 1
  /\ \E k \in DiffKeys : D_Has(dLeft, k) /\ D_Has(dRight, k) /\ ~D_Disagree(k)
  /\ \E k \in DiffKeys : D_Disagree(k)

D_LeftOf(r) == IF dCalled = "check_config" THEN r.old ELSE r.pt
D_RightOf(r) == IF dCalled = "check_config" THEN r.new ELSE r.prod
D_Added == IF dCalled = "check_config" THEN "added" ELSE "added_in_prod"
D_Removed == IF dCalled = "check_config" THEN "removed" ELSE "added_in_pt"

\* C2: every record carries its key and the two values as the maps hold them
\* (undefined for a missing key), is Added exactly when the key is on the
\* right side only, Removed exactly when it is on the left side only, Changed
\* exactly when it is on both sides with different values, and never has both
\* sides missing.
C2_RecordsClassified ==
  dCalled # "none" =>
    \A i \in 1..Len(dOut) :
      LET r == dOut[i]
          k == r.key
      IN /\ D_LeftOf(r) = (IF D_Has(dLeft, k) THEN D_Val(dLeft, k) ELSE Undefined)
         /\ D_RightOf(r) = (IF D_Has(dRight, k) THEN D_Val(dRight, k) ELSE Undefined)
         /\ (r.type = D_Added <=> ~D_Has(dLeft, k) /\ D_Has(dRight, k))
         /\ (r.type = D_Removed <=> D_Has(dLeft, k) /\ ~D_Has(dRight, k))
         /\ (r.type = "changed" <=>
               D_Has(dLeft, k) /\ D_Has(dRight, k) /\ D_Val(dLeft, k) # D_Val(dRight, k))
         /\ r.type \in { D_Added, D_Removed, "changed" }
         /\ ~(D_LeftOf(r) = Undefined /\ D_RightOf(r) = Undefined)

\* one call reports a Changed key and then an Added key
C2_Witness ==
  /\ dCalled # "none"
  /\ Len(dOut) = 2
  /\ dOut[1].type = "changed"
  /\ dOut[2].type \in { "added", "added_in_prod" }

D_Suppressible(k) ==
  /\ D_Has(dLeft, k) /\ D_Has(dRight, k)
  /\ D_Val(dLeft, k) # D_Val(dRight, k)
  /\ D_Val(dLeft, k) # EmptyStr /\ D_Val(dRight, k) # EmptyStr
  /\ normalizeValue(D_Val(dLeft, k), TRUE) = normalizeValue(D_Val(dRight, k), FALSE)
  /\ normalizeValue(D_Val(dLeft, k), TRUE) # EmptyStr
D_Records(out, k) == { out[i] : i \in { j \in 1..Len(out) : out[j].key = k } }

\* C3: with applyFilter = true a disagreeing key is omitted exactly when it is
\* Changed, both values are non-empty and the two normalized values (pt rules
\* on the left, prod rules on the right) are equal and non-empty; an omitted
\* key has a record in the unfiltered diff of the same inputs, and every
\* other disagreeing key has the same record with and without the filter.
C3_Suppression ==
  (dCalled = "compare_envs" /\ dFilter) =>
    LET unfiltered == CompareEnvs_computeDiffs(dLeft, dRight, FALSE)
    IN \A k \in DiffKeys :
         D_Disagree(k) =>
           /\ (D_Count(k) = 0 <=> D_Suppressible(k))
           /\ Cardinality(D_Records(unfiltered, k)) = 1
           /\ (~D_Suppressible(k) => D_Records(dOut, k) = D_Records(unfiltered, k))

\* 'pt-svc' against 'prod-svc' is omitted while 'pt-' against 'prod-', whose
\* normalized values are both empty, is reported
C3_Witness ==
  /\ dCalled = "compare_envs" /\ dFilter
  /\ \E k \in DiffKeys : D_Suppressible(k) /\ D_Count(k) = 0
  /\ \E k \in DiffKeys :
       /\ D_Has(dLeft, k) /\ D_Has(dRight, k)
       /\ D_Val(dLeft, k) = S_pt /\ D_Val(dRight, k) = S_prod
       /\ D_Count(k) = 1

(***************************************************************************)
(* The repository as the two scripts see it                                *)
(***************************************************************************)
MaxFiles == 3

\* a positional argument that was not given
NoArg == "(undefined)"
Falsy(arg) == arg = NoArg \/ arg = ""

TagNames == { "v1" }
CommitIds == { "c1" }
ArgChoices == { NoArg, "", "v1", "c1", "nope" }
FilterChoices == { NoArg, "true", "false" }

\* new Set([...tags.all, ...commits.split('\n')]): the output of rev-list ends
\* with a line break, so the split also yields the empty string
ValidRefs == TagNames \cup CommitIds \cup { "" }

Path(dir, base, ext) == [dir |-> dir, base |-> base, ext |-> ext]

\* the paths a revision may hold, in the order git ls-tree prints them
AllPaths ==
  << Path(<<"config">>, "app", "properties"),
     Path(<<"config", "dev">>, "notes", "txt"),
     Path(<<"config", "prod">>, "app", "properties"),
     Path(<<"config", "pt">>, "app", "properties"),
     Path(<<"config", "pt">>, "db", "properties"),
     Path(<<"config", "pt", "sub">>, "app", "properties") >>

Trees ==
  { { AllPaths[i] : i \in idx } :
      idx \in { x \in SUBSET (1..Len(AllPaths)) : Cardinality(x) <= MaxFiles } }

\* the contents a .properties file may parse to
MainContents == { Obj(<<>>),
                  Obj(<<[key |-> "host", val |-> S_pt \o S_svc]>>),
                  Obj(<<[key |-> "host", val |-> S_prod \o S_svc]>>) }

\* how git show may end: with the file's text, or with one of its messages
\* "path '..' exists on disk, but not in '<rev>'" (absent from the revision,
\* present in the working copy), "path '..' does not exist in '<rev>'" (absent
\* from both), or any other failure
ShowOutcomes ==
  { [kind |-> "ok", content |-> c] : c \in MainContents } \cup
  { [kind |-> k, content |-> Null] :
      k \in { "existsOnDiskNotIn", "doesNotExistIn", "otherError" } }

\* how git ls-tree may end
LsOutcomes == { "ok", "notFound", "otherError" }

Under(dir, p) ==
  /\ Len(dir) <= Len(p.dir)
  /\ \A i \in 1..Len(dir) : p.dir[i] = dir[i]

\* git ls-tree -r --name-only <tag> <dir>, split into its non-empty lines
RECURSIVE LsTreeFrom(_, _, _)
LsTreeFrom(t, dir, i) ==
  IF i > Len(AllPaths) THEN <<>>
  ELSE (IF AllPaths[i] \in t /\ Under(dir, AllPaths[i]) THEN <<AllPaths[i]>> ELSE <<>>)
         \o LsTreeFrom(t, dir, i + 1)

\* listFiles: the listing, or a throw on any failure of git
listFiles(t, dir, outcome) ==
  IF outcome = "ok" THEN [threw |-> FALSE, value |-> LsTreeFrom(t, dir, 1)]
  ELSE [threw |-> TRUE, value |-> <<>>]

\* getFileContent: the parsed text; null when the message of the failure holds
\* 'exists on disk, but not in'; a throw otherwise
getFileContent(outcome) ==
  IF outcome.kind = "ok" THEN [threw |-> FALSE, value |-> outcome.content]
  ELSE IF outcome.kind = "existsOnDiskNotIn" THEN [threw |-> FALSE, value |-> Null]
  ELSE [threw |-> TRUE, value |-> Null]

\* f.endsWith('.properties')
endsWithProperties(p) == p.ext = "properties"

RECURSIVE FilterProperties(_)
FilterProperties(seq) ==
  IF seq = <<>> THEN <<>>
  ELSE (IF endsWithProperties(Head(seq)) THEN <<Head(seq)>> ELSE <<>>)
         \o FilterProperties(Tail(seq))

\* path.basename(fullPath)
basename(p) == [base |-> p.base, ext |-> p.ext]

\* a JavaScript object with computed keys is a function on its keys
EmptyObject == <<>>
Put(obj, k, v) == [x \in (DOMAIN obj) \cup { k } |-> IF x = k THEN v ELSE obj[x]]

(***************************************************************************)
(* check_config.js                                                         *)
(***************************************************************************)
\* variant of CheckConfig_refsInvalid: only newTag is tested
CheckConfig_refsInvalidNewOnly(oldTag, newTag) == newTag \notin ValidRefs

\* !validRefs.has(oldTag) || !validRefs.has(newTag)
CheckConfig_refsInvalid(oldTag, newTag) ==
  oldTag \notin ValidRefs \/ newTag \notin ValidRefs

\* path.relative(configDir, path.dirname(p)).split(path.sep)[0]
CheckConfig_firstSegment(p) ==
  LET relative == Tail(p.dir)
  IN IF relative = <<>> THEN "" ELSE relative[1]

\* [...new Set(allFiles.map(...).filter(p => p && p !== '.'))]
RECURSIVE CheckConfig_segments(_)
CheckConfig_segments(allFiles) ==
  IF allFiles = <<>> THEN <<>>
  ELSE LET seg == CheckConfig_firstSegment(Head(allFiles))
       IN (IF seg # "" /\ seg # "." THEN <<seg>> ELSE <<>>)
            \o CheckConfig_segments(Tail(allFiles))

CheckConfig_envs(allFiles) == SetOrder(CheckConfig_segments(allFiles), {})

\* variant of CheckConfig_rootCatch: the failure reaches the outer catch
CheckConfig_rootCatchRethrow(res) == [out |-> <<>>, exit |-> "exit1"]

\* the catch around listFiles(newTag, configDir): print the empty result, return
CheckConfig_rootCatch(res) == [out |-> <<res>>, exit |-> "exit0"]

\* diffs.length > 0 || oldContent === null || newContent === null
CheckConfig_retained(diffs, old, new) == Len(diffs) > 0 \/ old.isNull \/ new.isNull

\* variant of CheckConfig_prune: the empty envs are kept
CheckConfig_pruneNothing(envsObj) == envsObj

\* for (const env in result.envs) if (Object.keys(result.envs[env]).length === 0) delete
CheckConfig_prune(envsObj) ==
  [e \in { x \in DOMAIN envsObj : DOMAIN envsObj[x] # {} } |-> envsObj[e]]

\* the argument check at the top of check_config.js
T_Usage ==
  /\ mode = "temporal" /\ pc = "start"
  /\ IF Falsy(argv.oldTag) \/ Falsy(argv.newTag)
     THEN pc' = "done" /\ exit' = "exit1"
     ELSE pc' = "validate" /\ exit' = exit
  /\ UNCHANGED <<normVars, diffVars, mode, argv, tree, result, envQueue, curEnv, files,
                 oldContent, stdout, nLsTree, nShow, processed, discovered, lastShow, lastLs>>

\* main: git.tags(), git rev-list --all, and the check of the two references
T_Validate ==
  /\ mode = "temporal" /\ pc = "validate"
  /\ \E gitOk \in BOOLEAN :
       IF ~gitOk \/ CheckConfig_refsInvalid(argv.oldTag, argv.newTag)
       THEN pc' = "done" /\ exit' = "exit1"
       ELSE pc' = "listRoot" /\ exit' = exit
  /\ UNCHANGED <<normVars, diffVars, mode, argv, tree, result, envQueue, curEnv, files,
                 oldContent, stdout, nLsTree, nShow, processed, discovered, lastShow, lastLs>>

\* main: listFiles(newTag, 'config') in its own try, and the list of envs
T_ListRoot ==
  /\ mode = "temporal" /\ pc = "listRoot"
  /\ \E outcome \in LsOutcomes :
       LET listed == listFiles(tree, <<"config">>, outcome)
       IN /\ nLsTree' = nLsTree + 1
          /\ lastLs' = [dir |-> "root", outcome |-> outcome]
          /\ IF listed.threw
             THEN /\ stdout' = stdout \o CheckConfig_rootCatch(result).out
                  /\ exit' = CheckConfig_rootCatch(result).exit
                  /\ pc' = "done"
                  /\ UNCHANGED <<envQueue, discovered>>
             ELSE /\ envQueue' = CheckConfig_envs(listed.value)
                  /\ discovered' = { CheckConfig_envs(listed.value)[i] :
                                       i \in 1..Len(CheckConfig_envs(listed.value)) }
                  /\ pc' = "envLoop"
                  /\ UNCHANGED <<stdout, exit>>
  /\ UNCHANGED <<normVars, diffVars, mode, argv, tree, result, curEnv, files,
                 oldContent, nShow, processed, lastShow>>

\* the head of the env loop: result.envs[env] = {} and listFiles(newTag, envPath)
T_ListEnv ==
  /\ mode = "temporal" /\ pc = "envLoop" /\ envQueue # <<>>
  /\ \E outcome \in LsOutcomes :
       LET env == Head(envQueue)
           listed == listFiles(tree, <<"config", env>>, outcome)
           props == FilterProperties(listed.value)
       IN /\ nLsTree' = nLsTree + 1
          /\ lastLs' = [dir |-> "env", outcome |-> outcome]
          /\ result' = [envs |-> Put(result.envs, env, EmptyObject)]
          /\ curEnv' = env
          /\ envQueue' = Tail(envQueue)
          /\ IF listed.threw
             THEN pc' = "done" /\ exit' = "exit1" /\ files' = <<>>
             ELSE /\ files' = props
                  /\ pc' = (IF props = <<>> THEN "envLoop" ELSE "fetchOld")
                  /\ exit' = exit
  /\ UNCHANGED <<normVars, diffVars, mode, argv, tree, oldContent, stdout, nShow,
                 processed, discovered, lastShow>>

\* the file loop: getFileContent(oldTag, fullPath)
T_FetchOld ==
  /\ mode = "temporal" /\ pc = "fetchOld"
  /\ \E outcome \in ShowOutcomes :
       LET got == getFileContent(outcome)
       IN /\ nShow' = nShow + 1
          /\ lastShow' = outcome.kind
          /\ IF got.threw
             THEN pc' = "done" /\ exit' = "exit1" /\ oldContent' = oldContent
             ELSE pc' = "fetchNew" /\ exit' = exit /\ oldContent' = got.value
  /\ UNCHANGED <<normVars, diffVars, mode, argv, tree, result, envQueue, curEnv, files,
                 stdout, nLsTree, processed, discovered, lastLs>>

\* the file loop: getFileContent(newTag, fullPath), computeDiffs, and the entry
\* of result.envs[env] under the file's base name
T_FetchNew ==
  /\ mode = "temporal" /\ pc = "fetchNew"
  /\ \E outcome \in ShowOutcomes :
       LET got == getFileContent(outcome)
           fullPath == Head(files)
           fileName == basename(fullPath)
           newContent == got.value
           diffs == CheckConfig_computeDiffs(oldContent, newContent)
           entry == [old |-> oldContent, new |-> newContent, diffs |-> diffs]
       IN /\ nShow' = nShow + 1
          /\ lastShow' = outcome.kind
          /\ IF got.threw
             THEN /\ pc' = "done" /\ exit' = "exit1"
                  /\ UNCHANGED <<result, files, processed>>
             ELSE /\ result' =
                       IF CheckConfig_retained(diffs, oldContent, newContent)
                       THEN [envs |-> Put(result.envs, curEnv,
                                          Put(result.envs[curEnv], fileName, entry))]
                       ELSE result
                  /\ processed' = processed \cup
                       { [scope |-> curEnv, path |-> fullPath, name |-> fileName,
                          left |-> oldContent, right |-> newContent, diffs |-> diffs] }
                  /\ files' = Tail(files)
                  /\ pc' = (IF Tail(files) = <<>> THEN "envLoop" ELSE "fetchOld")
                  /\ exit' = exit
  /\ UNCHANGED <<normVars, diffVars, mode, argv, tree, envQueue, curEnv, oldContent,
                 stdout, nLsTree, discovered, lastLs>>

\* after the env loop: drop the empty envs and print the result
T_Finish ==
  /\ mode = "temporal" /\ pc = "envLoop" /\ envQueue = <<>>
  /\ result' = [envs |-> CheckConfig_prune(result.envs)]
  /\ stdout' = Append(stdout, result')
  /\ pc' = "done"
  /\ exit' = "exit0"
  /\ UNCHANGED <<normVars, diffVars, mode, argv, tree, envQueue, curEnv, files,
                 oldContent, nLsTree, nShow, processed, discovered, lastShow, lastLs>>

(***************************************************************************)
(* compare_envs.js                                                         *)
(***************************************************************************)
\* const [, , tag, filter = 'true'] = process.argv
CompareEnvs_filter(arg) == IF arg = NoArg THEN "true" ELSE arg

\* !validRefs.has(tag)
CompareEnvs_refsInvalid(tag) == tag \notin ValidRefs

\* result.envs.pt[fileName] || null
CompareEnvs_contentOf(envObj, fileName) ==
  IF fileName \in DOMAIN envObj THEN envObj[fileName] ELSE Null

\* diffs.length > 0 || ptContent === null || prodContent === null
CompareEnvs_retained(diffs, ptContent, prodContent) ==
  Len(diffs) > 0 \/ ptContent.isNull \/ prodContent.isNull

\* the allFiles.forEach of main: the entries of result.diffs
CompareEnvs_diffsOf(envsObj, applyFilter) ==
  LET allFiles == (DOMAIN envsObj.pt) \cup (DOMAIN envsObj.prod)
      ptContent(f) == CompareEnvs_contentOf(envsObj.pt, f)
      prodContent(f) == CompareEnvs_contentOf(envsObj.prod, f)
      diffs(f) == CompareEnvs_computeDiffs(ptContent(f), prodContent(f), applyFilter)
  IN [f \in { x \in allFiles :
                CompareEnvs_retained(diffs(x), ptContent(x), prodContent(x)) } |->
        [pt |-> ptContent(f), prod |-> prodContent(f), diffs |-> diffs(f)]]

\* variant of CompareEnvs_deleteEnvs: result.envs is kept
CompareEnvs_keepEnvs(res) == res

\* delete result.envs
CompareEnvs_deleteEnvs(res) == [diffs |-> res.diffs]

\* the argument check at the top of compare_envs.js
C_Usage ==
  /\ mode = "cross" /\ pc = "start"
  /\ IF Falsy(argv.tag)
     THEN pc' = "done" /\ exit' = "exit1"
     ELSE pc' = "checkRepo" /\ exit' = exit
  /\ UNCHANGED <<normVars, diffVars, mode, argv, tree, result, envQueue, curEnv, files,
                 oldContent, stdout, nLsTree, nShow, processed, discovered, lastShow, lastLs>>

\* checkRepoPath: the repository directory and its .git must be accessible
C_CheckRepoPath ==
  /\ mode = "cross" /\ pc = "checkRepo"
  /\ \E accessible \in BOOLEAN :
       IF accessible
       THEN pc' = "validate" /\ exit' = exit
       ELSE pc' = "done" /\ exit' = "exit1"
  /\ UNCHANGED <<normVars, diffVars, mode, argv, tree, result, envQueue, curEnv, files,
                 oldContent, stdout, nLsTree, nShow, processed, discovered, lastShow, lastLs>>

\* main: git.tags(), git rev-list --all, and the check of the reference
C_Validate ==
  /\ mode = "cross" /\ pc = "validate"
  /\ \E gitOk \in BOOLEAN :
       IF ~gitOk \/ CompareEnvs_refsInvalid(argv.tag)
       THEN pc' = "done" /\ exit' = "exit1" /\ envQueue' = envQueue
       ELSE pc' = "envLoop" /\ exit' = exit /\ envQueue' = <<"pt", "prod">>
  /\ UNCHANGED <<normVars, diffVars, mode, argv, tree, result, curEnv, files,
                 oldContent, stdout, nLsTree, nShow, processed, discovered, lastShow, lastLs>>

\* the head of the env loop: listFiles(tag, envPath)
C_ListEnv ==
  /\ mode = "cross" /\ pc = "envLoop" /\ envQueue # <<>>
  /\ \E outcome \in LsOutcomes :
       LET env == Head(envQueue)
           listed == listFiles(tree, <<"config", env>>, outcome)
           props == FilterProperties(listed.value)
       IN /\ nLsTree' = nLsTree + 1
          /\ lastLs' = [dir |-> "env", outcome |-> outcome]
          /\ curEnv' = env
          /\ envQueue' = Tail(envQueue)
          /\ IF listed.threw
             THEN pc' = "done" /\ exit' = "exit1" /\ files' = <<>>
             ELSE /\ files' = props
                  /\ pc' = (IF props = <<>> THEN "envLoop" ELSE "fetch")
                  /\ exit' = exit
  /\ UNCHANGED <<normVars, diffVars, mode, argv, tree, result, oldContent, stdout, nShow,
                 processed, discovered, lastShow>>

\* the file loop: result.envs[env][fileName] = await getFileContent(tag, fullPath)
C_Fetch ==
  /\ mode = "cross" /\ pc = "fetch"
  /\ \E outcome \in ShowOutcomes :
       LET got == getFileContent(outcome)
           fileName == basename(Head(files))
       IN /\ nShow' = nShow + 1
          /\ lastShow' = outcome.kind
          /\ IF got.threw
             THEN pc' = "done" /\ exit' = "exit1" /\ UNCHANGED <<result, files>>
             ELSE /\ result' = [result EXCEPT
                                  !.envs[curEnv] = Put(@, fileName, got.value)]
                  /\ files' = Tail(files)
                  /\ pc' = (IF Tail(files) = <<>> THEN "envLoop" ELSE "fetch")
                  /\ exit' = exit
  /\ UNCHANGED <<normVars, diffVars, mode, argv, tree, envQueue, curEnv, oldContent,
                 stdout, nLsTree, processed, discovered, lastLs>>

\* after the env loop: the diffs of every file name, delete result.envs, print
C_Compare ==
  /\ mode = "cross" /\ pc = "envLoop" /\ envQueue = <<>>
  /\ LET applyFilter == CompareEnvs_filter(argv.filter) = "true"
         allFiles == (DOMAIN result.envs.pt) \cup (DOMAIN result.envs.prod)
         withDiffs == [result EXCEPT !.diffs = CompareEnvs_diffsOf(result.envs, applyFilter)]
     IN /\ result' = CompareEnvs_deleteEnvs(withDiffs)
        /\ processed' =
             { [scope |-> "diffs", name |-> f,
                left |-> CompareEnvs_contentOf(result.envs.pt, f),
                right |-> CompareEnvs_contentOf(result.envs.prod, f),
                diffs |-> CompareEnvs_computeDiffs(
                            CompareEnvs_contentOf(result.envs.pt, f),
                            CompareEnvs_contentOf(result.envs.prod, f), applyFilter)] :
               f \in allFiles }
  /\ stdout' = Append(stdout, result')
  /\ pc' = "done"
  /\ exit' = "exit0"
  /\ UNCHANGED <<normVars, diffVars, mode, argv, tree, envQueue, curEnv, files,
                 oldContent, nLsTree, nShow, discovered, lastShow, lastLs>>

(***************************************************************************)
(* One run of either script                                                *)
(***************************************************************************)
Init ==
  /\ IdleNorm /\ IdleDiff
  /\ mode \in { "temporal", "cross" }
  /\ argv \in IF mode = "temporal"
              THEN [oldTag : ArgChoices, newTag : ArgChoices]
              ELSE [tag : ArgChoices, filter : FilterChoices]
  /\ tree \in Trees
  /\ pc = "start"
  /\ result = IF mode = "temporal"
              THEN [envs |-> EmptyObject]
              ELSE [envs |-> [pt |-> EmptyObject, prod |-> EmptyObject],
                    diffs |-> EmptyObject]
  /\ envQueue = <<>> /\ curEnv = "" /\ files = <<>> /\ oldContent = Null
  /\ stdout = <<>> /\ exit = "running" /\ nLsTree = 0 /\ nShow = 0
  /\ processed = {} /\ discovered = {}
  /\ lastShow = "none" /\ lastLs = [dir |-> "none", outcome |-> "none"]

Next ==
  \/ T_Usage
  \/ T_Validate
  \/ T_ListRoot
  \/ T_ListEnv
  \/ T_FetchOld
  \/ T_FetchNew
  \/ T_Finish
  \/ C_Usage
  \/ C_CheckRepoPath
  \/ C_Validate
  \/ C_ListEnv
  \/ C_Fetch
  \/ C_Compare

Spec == Init /\ [][Next]_vars

(***************************************************************************)
(* Properties of a run                                                     *)
(***************************************************************************)
R_Retainable(e) == Len(e.diffs) > 0 \/ e.left.isNull \/ e.right.isNull

\* the printed report holds, under the visited file's name, that file's own
\* sides and records
R_HasOwnEntry(out, e) ==
  IF mode = "temporal"
  THEN /\ e.scope \in DOMAIN out.envs
       /\ e.name \in DOMAIN out.envs[e.scope]
       /\ out.envs[e.scope][e.name] = [old |-> e.left, new |-> e.right, diffs |-> e.diffs]
  ELSE /\ e.name \in DOMAIN out.diffs
       /\ out.diffs[e.name] = [pt |-> e.left, prod |-> e.right, diffs |-> e.diffs]

\* C4: in a printed report every visited .properties file has a FileDiff with
\* its own two sides and its own records if and only if its diff has a record
\* or one of its sides is absent.
C4_RetentionPerFile ==
  stdout # <<>> =>
    \A e \in processed : R_HasOwnEntry(stdout[1], e) <=> R_Retainable(e)

\* C5: a printed check_config.js report has no environment with an empty file
\* mapping, and an environment found under the configuration root is in it
\* exactly when one of its files was retained.
C5_EnvPruning ==
  (mode = "temporal" /\ stdout # <<>>) =>
    LET out == stdout[1]
    IN /\ \A e \in DOMAIN out.envs : DOMAIN out.envs[e] # {}
       /\ DOMAIN out.envs \subseteq discovered
       /\ \A e \in discovered :
            e \in DOMAIN out.envs <=>
              \E f \in processed : f.scope = e /\ R_Retainable(f)

\* two environments were found; one is reported, the other was dropped
C5_Witness ==
  /\ mode = "temporal" /\ stdout # <<>>
  /\ \E e \in discovered : e \in DOMAIN stdout[1].envs
  /\ \E e \in discovered : e \notin DOMAIN stdout[1].envs

R_Supplied == IF mode = "temporal" THEN { argv.oldTag, argv.newTag } ELSE { argv.tag }
R_AllRefsExist == R_Supplied \subseteq (TagNames \cup CommitIds)

\* C6: no git ls-tree and no git show is issued before the references were
\* checked; with a supplied reference that is neither a tag nor a commit the
\* run issues none, prints nothing on standard output, gets no further than
\* the check and can only end with status 1.
C6_RefsCheckedFirst ==
  mode \in { "temporal", "cross" } =>
    /\ (nLsTree > 0 \/ nShow > 0) =>
         (pc \notin { "start", "checkRepo", "validate" } /\ R_AllRefsExist)
    /\ ~R_AllRefsExist =>
         /\ nLsTree = 0 /\ nShow = 0 /\ stdout = <<>>
         /\ pc \in { "start", "checkRepo", "validate", "done" }
         /\ exit \in { "running", "exit1" }
         /\ (pc = "done" => exit = "exit1")

\* check_config.js nope v1: the old reference fails the check, status 1
C6_Witness ==
  /\ mode = "temporal"
  /\ argv.oldTag = "nope" /\ argv.newTag = "v1"
  /\ pc = "done" /\ exit = "exit1"
  /\ nLsTree = 0 /\ nShow = 0

\* C7: a git show failure other than 'the file does not exist at this
\* revision' ends the run with status 1 and nothing on standard output; a file
\* that does not exist at the revision gives an absent map and the run goes
\* on; standard output is written at most once, after every file was visited,
\* and never in a run that ends with status 1.
C7_FetchFailures ==
  [][ /\ (nShow' = nShow + 1 /\ lastShow' = "otherError") =>
           (exit' = "exit1" /\ stdout' = <<>>)
      /\ (nShow' = nShow + 1 /\ lastShow' \in { "existsOnDiskNotIn", "doesNotExistIn" }) =>
           exit' = "running"
      /\ stdout' # stdout =>
           (stdout = <<>> /\ Len(stdout') = 1 /\ files = <<>> /\ envQueue = <<>>)
      /\ exit' = "exit1" => stdout' = <<>> ]_vars

\* C8: in check_config.js, when the listing of the configuration root fails
\* because the root is not in the new revision, the empty report {envs: {}}
\* is printed, the run ends normally and no git show was issued; when the
\* listing of an environment directory fails, the run ends with status 1 and
\* prints nothing.
C8_RootAndEnvListing ==
  mode = "temporal" =>
    /\ lastLs = [dir |-> "root", outcome |-> "notFound"] =>
         (stdout = <<[envs |-> EmptyObject]>> /\ exit = "exit0" /\ nShow = 0)
    /\ (lastLs.dir = "env" /\ lastLs.outcome # "ok") =>
         (exit = "exit1" /\ stdout = <<>>)

\* the root is missing at the new revision and the empty report is out
C8_Witness ==
  /\ mode = "temporal"
  /\ lastLs = [dir |-> "root", outcome |-> "notFound"]
  /\ Len(stdout) = 1
  /\ exit = "exit0"

\* C9: what compare_envs.js prints has the single top-level field diffs; the
\* entries of diffs are those of the retained file names, each with the pt
\* content, the prod content and the records of that name, so that neither the
\* envs mapping nor a file that was not retained is in the output.
C9_DiffsOnly ==
  (mode = "cross" /\ stdout # <<>>) =>
    LET out == stdout[1]
    IN /\ DOMAIN out = { "diffs" }
       /\ \A e \in processed : ~R_Retainable(e) => e.name \notin DOMAIN out.diffs
       /\ \A f \in DOMAIN out.diffs :
            \E e \in processed :
              /\ e.name = f /\ R_Retainable(e)
              /\ out.diffs[f] = [pt |-> e.left, prod |-> e.right, diffs |-> e.diffs]

\* a file with content on both sides was dropped, another one is reported
C9_Witness ==
  /\ mode = "cross" /\ stdout # <<>>
  /\ \E e \in processed : ~R_Retainable(e) /\ e.left.props # <<>>
  /\ DOMAIN stdout[1].diffs # {}

====
